---- MODULE Spec2Model ----
(***************************************************************************)
(* Model of app.py (Hermione - Arborescence -> PDF): title resolution,     *)
(* JSON loading, faculty filtering, subject/course extraction and the      *)
(* block sequence ("story") that build_pdf hands to the page layout.       *)
(*                                                                         *)
(* Strings are sequences of one-character strings, so that strip() and     *)
(* lower() are computed.  An optional value (dict.get -> None) is a        *)
(* sequence of length 0 (None / absent) or 1 (present).                    *)
(***************************************************************************)
EXTENDS Integers, Sequences, FiniteSets, TLC

VARIABLES
    pc,          \* position of the script / of the test driver
    node,        \* the node handed to node_title
    titleOut,    \* what node_title returned, as an optional string
    files,       \* the uploaded buffers given to load_all_trees
    loadIdx,     \* index of the next buffer of the loop of load_all_trees
    trees,       \* the list `trees` accumulated by load_all_trees
    warnings,    \* the st.warning calls made so far (file names)
    doc,         \* the uploaded JSON text, as decoded: node id -> node
    heap,        \* the live objects json.loads built from doc
    hashseed,    \* the process's string hash seed (iteration order of sets)
    runs,        \* the lists collect_matieres_and_courses returned so far
    facs_with_courses,  \* line 254
    skipped,     \* line 255
    story,       \* the block list build_pdf hands to doc.build
    sections,    \* per faculty block: the subjects and courses written in it
    collected    \* the faculties passed to collect_matieres_and_courses

vars == <<pc, node, titleOut, files, loadIdx, trees, warnings, doc, heap,
          hashseed, runs, facs_with_courses, skipped, story, sections,
          collected>>

titleVars == <<node, titleOut>>
loadVars == <<files, loadIdx, warnings>>
treeVars == <<doc, heap, hashseed, runs, facs_with_courses, skipped, story,
              sections, collected>>

(***************************************************************************)
(* Python values                                                           *)
(***************************************************************************)
None == <<>>
Some(x) == <<x>>

\* bool(x) for an optional string: None and "" are falsy
Truthy(o) == o # None /\ o[1] # <<>>

\* str.isspace() for one character
IsSpace(c) == c = " "

RECURSIVE LStrip(_)
LStrip(s) == IF s # <<>> /\ IsSpace(Head(s)) THEN LStrip(Tail(s)) ELSE s

RECURSIVE RStrip(_)
RStrip(s) ==
    IF s # <<>> /\ IsSpace(s[Len(s)]) THEN RStrip(SubSeq(s, 1, Len(s) - 1)) ELSE s

\* str.strip()
Strip(s) == RStrip(LStrip(s))

\* the characters of the model, in code-point order
Ascii ==
    <<" ", "0", "1", "2", "3", "4", "5", "6", "7", "8", "9", "?",
      "A", "B", "C", "D", "E", "F", "G", "H", "I", "J", "K", "L", "M",
      "N", "O", "P", "Q", "R", "S", "T", "U", "V", "W", "X", "Y", "Z",
      "a", "b", "c", "d", "e", "f", "g", "h", "i", "j", "k", "l", "m",
      "n", "o", "p", "q", "r", "s", "t", "u", "v", "w", "x", "y", "z">>

CharRank(c) == CHOOSE i \in 1..Len(Ascii) : Ascii[i] = c

IsUpper(c) == CharRank(c) \in 13..38

\* str.lower(), one character at a time
LowerChar(c) == IF IsUpper(c) THEN Ascii[CharRank(c) + 26] ELSE c
Lower(s) == [i \in 1..Len(s) |-> LowerChar(s[i])]

\* s < t on strings (lexicographic on code points)
RECURSIVE StrLess(_, _)
StrLess(s, t) ==
    IF t = <<>> THEN FALSE
    ELSE IF s = <<>> THEN TRUE
    ELSE IF Head(s) # Head(t)
         THEN CharRank(Head(s)) < CharRank(Head(t))
         ELSE StrLess(Tail(s), Tail(t))

\* str(id) of a JSON id: a string is itself, a one-digit number its digit
Digit == <<"0", "1", "2", "3", "4", "5", "6", "7", "8", "9">>
StrOfId(i) == IF i.t = "int" THEN <<Digit[i.n + 1]>> ELSE i.s

\* f"Element {node.get('id', '?')}" (the literal is spelled with an accent
\* in the source: "Element" stands for it here)
Placeholder(n) ==
    <<"E", "l", "e", "m", "e", "n", "t", " ">>
        \o (IF n.id = None THEN <<"?">> ELSE StrOfId(n.id[1]))

\* node.get("data", {}).get("name")
DataName(n) == IF n.data = None THEN None ELSE n.data[1].name

\* node_title, lines 40-42: title or data.name or placeholder, then strip
node_title(n) ==
    LET t == IF Truthy(n.title) THEN n.title[1]
             ELSE IF Truthy(DataName(n)) THEN DataName(n)[1]
             ELSE Placeholder(n)
    IN  Strip(t)

\* the variables of the tree pipeline, while it has not started
NoTree ==
    /\ doc = <<>>
    /\ heap = <<>>
    /\ hashseed = FALSE
    /\ runs = <<>>
    /\ facs_with_courses = <<>>
    /\ skipped = 0
    /\ story = <<>>
    /\ sections = <<>>
    /\ collected = <<>>

(***************************************************************************)
(* node_title on its own: every combination of title, data.name and id     *)
(***************************************************************************)
TitleValues ==
    {None, Some(<<>>), Some(<<" ">>), Some(<<"A", "l", "g", "o">>),
     Some(<<" ", "a", " ">>)}

DataValues == {None} \cup {Some([name |-> v]) : v \in TitleValues}

IdValues ==
    {None, Some([t |-> "int", n |-> 7]), Some([t |-> "str", s |-> <<>>]),
     Some([t |-> "str", s |-> <<" ">>]), Some([t |-> "str", s |-> <<"x", "1">>])}

InitTitle ==
    /\ pc = "title_call"
    /\ node \in [title : TitleValues, data : DataValues, id : IdValues]
    /\ titleOut = None
    /\ files = <<>>
    /\ loadIdx = 1
    /\ trees = <<>>
    /\ warnings = <<>>
    /\ NoTree

NodeTitle ==
    /\ pc = "title_call"
    /\ titleOut' = Some(node_title(node))
    /\ pc' = "title_done"
    /\ UNCHANGED <<node, trees, loadVars, treeVars>>

NextTitle == NodeTitle

SpecTitle == InitTitle /\ [][NextTitle]_vars

\* C4: node_title never returns an empty or whitespace-only string
C4_TitleNeverBlank ==
    pc = "title_done" => Strip(titleOut[1]) # <<>>

(***************************************************************************)
(* load_all_trees, lines 44-54                                             *)
(*                                                                         *)
(* A buffer is modelled by what json.loads makes of it: `top` is "garbage" *)
(* when decoding raises, "array" when the document is not an object,       *)
(* "object" otherwise; `data` and `path` say what the keys "data" and      *)
(* "hierarchicalTreeData" hold; `tree` is the array under the path.        *)
(***************************************************************************)
MaxFiles == 3

FileNames == <<"a.json", "b.json", "c.json", "d.json", "e.json">>

TreeArrays ==
    {<<>>, <<"FacA">>, <<"FacA", "FacB">>, <<"FacB", "FacA">>, <<"FacA", "FacA">>}

Documents ==
    {[top |-> "garbage", data |-> "absent", path |-> "absent", tree |-> <<>>],
     [top |-> "array", data |-> "absent", path |-> "absent", tree |-> <<>>],
     [top |-> "object", data |-> "absent", path |-> "absent", tree |-> <<>>],
     [top |-> "object", data |-> "null", path |-> "absent", tree |-> <<>>],
     [top |-> "object", data |-> "object", path |-> "absent", tree |-> <<>>],
     [top |-> "object", data |-> "object", path |-> "object", tree |-> <<>>]}
    \cup {[top |-> "object", data |-> "object", path |-> "array", tree |-> t] :
              t \in TreeArrays}

\* line 48: json.loads(f.read().decode("utf-8")) raises
DecodeRaises(d) == d.top = "garbage"

\* line 49: data.get("data", {}).get("hierarchicalTreeData", []) raises
\* AttributeError when the document or its "data" value has no .get
LookupRaises(d) == d.top = "array" \/ (d.top = "object" /\ d.data = "null")

\* line 49: the value of `tree` when nothing raised
LookupTree(d) ==
    IF d.data = "absent" \/ d.path = "absent"
    THEN [isList |-> TRUE, items |-> <<>>]
    ELSE [isList |-> d.path = "array", items |-> d.tree]

\* (mutant of Extend: the new faculties are put in front of the list)
ExtendFront(t, tree) == tree \o t

\* line 51: trees.extend(tree)
Extend(t, tree) == t \o tree

\* line 53: st.warning(... getattr(f, 'name', ...) ...)
Warn(w, f) == Append(w, f.name)

InitLoad ==
    /\ pc = "load"
    /\ \E n \in 0..MaxFiles :
          \E docs \in [1..n -> Documents] :
             files = [i \in 1..n |-> [name |-> FileNames[i], doc |-> docs[i]]]
    /\ loadIdx = 1
    /\ trees = <<>>
    /\ warnings = <<>>
    /\ node = [title |-> None, data |-> None, id |-> None]
    /\ titleOut = None
    /\ NoTree

\* one iteration of the loop, line 46-51: the buffer decodes and holds a list
LoadExtend ==
    /\ pc = "load" /\ loadIdx <= Len(files)
    /\ LET d == files[loadIdx].doc IN
         /\ ~DecodeRaises(d) /\ ~LookupRaises(d)
         /\ LookupTree(d).isList
         /\ trees' = Extend(trees, LookupTree(d).items)
    /\ loadIdx' = loadIdx + 1
    /\ UNCHANGED <<pc, files, warnings, titleVars, treeVars>>

\* one iteration, line 50: isinstance(tree, list) is false, nothing happens
LoadSkip ==
    /\ pc = "load" /\ loadIdx <= Len(files)
    /\ LET d == files[loadIdx].doc IN
         /\ ~DecodeRaises(d) /\ ~LookupRaises(d)
         /\ ~LookupTree(d).isList
    /\ loadIdx' = loadIdx + 1
    /\ UNCHANGED <<pc, files, trees, warnings, titleVars, treeVars>>

\* one iteration, lines 52-53: an exception was raised in the try block
LoadExcept ==
    /\ pc = "load" /\ loadIdx <= Len(files)
    /\ LET d == files[loadIdx].doc IN DecodeRaises(d) \/ LookupRaises(d)
    /\ warnings' = Warn(warnings, files[loadIdx])
    /\ loadIdx' = loadIdx + 1
    /\ UNCHANGED <<pc, files, trees, titleVars, treeVars>>

\* line 54: return trees
LoadReturn ==
    /\ pc = "load" /\ loadIdx > Len(files)
    /\ pc' = "loaded"
    /\ UNCHANGED <<files, loadIdx, trees, warnings, titleVars, treeVars>>

NextLoad == LoadExtend \/ LoadSkip \/ LoadExcept \/ LoadReturn

SpecLoad == InitLoad /\ [][NextLoad]_vars

\* the buffers whose document is of no use: undecodable, or the path
\* data.hierarchicalTreeData absent or not an array
PathUnusable(d) ==
    \/ d.top # "object"
    \/ d.data # "object"
    \/ d.path # "array"

Count(seq, x) == Cardinality({i \in 1..Len(seq) : seq[i] = x})

\* C5: every undecodable buffer and every buffer whose path is absent or
\* not an array adds no faculty and is reported by a warning; the loop goes
\* on to the end of the batch.
C5_UnusableBufferWarned ==
    pc = "loaded" =>
        \A i \in 1..Len(files) :
            PathUnusable(files[i].doc) => Count(warnings, files[i].name) >= 1

RECURSIVE ConcatTrees(_)
ConcatTrees(fs) ==
    IF fs = <<>> THEN <<>>
    ELSE (IF ~PathUnusable(Head(fs).doc) THEN Head(fs).doc.tree ELSE <<>>)
             \o ConcatTrees(Tail(fs))

\* C6: the returned list is the concatenation, in buffer order, of the
\* arrays of the usable buffers (no deduplication), whatever the other
\* buffers are, and each undecodable buffer is named by exactly one warning.
C6_ConcatInOrder ==
    pc = "loaded" =>
        /\ trees = ConcatTrees(files)
        /\ \A i \in 1..Len(files) :
              DecodeRaises(files[i].doc) => Count(warnings, files[i].name) = 1

\* C6 witness: three buffers, the middle one undecodable, the outer ones
\* contributing faculties (one of them twice the same title)
C6_Witness ==
    /\ pc = "loaded"
    /\ Len(files) = 3
    /\ DecodeRaises(files[2].doc)
    /\ files[1].doc.tree = <<"FacA", "FacA">>
    /\ files[3].doc.tree = <<"FacB", "FacA">>
    /\ warnings = <<"b.json">>

(***************************************************************************)
(* Trees.  A node is a record of the JSON keys the code reads; `children`  *)
(* is [kind, items]: kind "none" (key absent or null), "list" (a JSON      *)
(* array, a mutable Python list) or "dict" (a single node, not in a list); *)
(* items are node ids in document order.  heap maps a node id to the live  *)
(* object; a list held by a node is that node's `children.items`.          *)
(***************************************************************************)
Last(q) == q[Len(q)]
Front(q) == SubSeq(q, 1, Len(q) - 1)
Range(q) == {q[i] : i \in 1..Len(q)}

\* ensure_list, lines 35-38: the items, and whether the list returned is
\* the very list object held by the node (x if isinstance(x, list))
ensure_list(x) ==
    IF x.kind = "none" THEN [same |-> FALSE, items |-> <<>>]
    ELSE IF x.kind = "list" THEN [same |-> TRUE, items |-> x.items]
    ELSE [same |-> FALSE, items |-> x.items]

\* what the node's `children` holds once the list `stack` aliases has
\* become `final`
StoreList(h, n, final) ==
    IF ensure_list(h[n].children).same
    THEN [h EXCEPT ![n].children.items = final]
    ELSE h

\* has_any_course, lines 62-69
RECURSIVE HasLoop(_, _)
HasLoop(h, stack) ==
    IF stack = <<>> THEN FALSE
    ELSE LET n == Last(stack) IN
         IF h[n].type = "cours" THEN TRUE
         ELSE HasLoop(h, Front(stack) \o ensure_list(h[n].children).items)

\* (mutant of has_any_course: only the root and its children are looked at)
has_any_course_shallow(h, root) ==
    \/ h[root].type = "cours"
    \/ \E c \in Range(ensure_list(h[root].children).items) : h[c].type = "cours"

has_any_course(h, root) == HasLoop(h, <<root>>)

\* the order in which a set of strings is iterated: it depends on the
\* strings' hashes, which the hash seed of the process fixes
HashBefore(a, b, seed) == IF seed THEN StrLess(a, b) ELSE StrLess(b, a)

\* the order sorted(set(...), key=lambda s: s.lower()) puts two distinct
\* strings in: by lowercased form, equal keys in set iteration order
SortBefore(a, b, seed) ==
    \/ StrLess(Lower(a), Lower(b))
    \/ (Lower(a) = Lower(b) /\ HashBefore(a, b, seed))

RECURSIVE SortSet(_, _)
SortSet(S, seed) ==
    IF S = {} THEN <<>>
    ELSE LET m == CHOOSE a \in S : \A b \in S \ {a} : SortBefore(a, b, seed)
         IN  <<m>> \o SortSet(S \ {m}, seed)

\* sorted(set(cours), key=lambda s: s.lower()), lines 96 and 230
SortedSet(cours, seed) == SortSet(Range(cours), seed)

\* line 86
is_matiere(n) ==
    (n.type = "ue" /\ ~n.isFolder) \/ (n.type = "category")

\* the inner loop, lines 89-95
RECURSIVE SubLoop(_, _, _)
SubLoop(h, sub, cours) ==
    IF sub = <<>> THEN cours
    ELSE LET m == Last(sub) IN
         IF h[m].type = "cours"
         THEN SubLoop(h, Front(sub), Append(cours, node_title(h[m])))
         ELSE SubLoop(h, Front(sub) \o ensure_list(h[m].children).items, cours)

\* (mutant of PopNext: stack.pop(), the last element first)
PopLast(stack) == [n |-> Last(stack), rest |-> Front(stack)]

\* line 82: stack.pop(0)
PopNext(stack) == [n |-> Head(stack), rest |-> Tail(stack)]

\* lines 97-98: the subject is kept when it has courses
KeepMatiere(matieres, label, cours) ==
    IF cours # <<>> THEN Append(matieres, [label |-> label, cours |-> cours])
    ELSE matieres

\* the outer loop, lines 81-100: the list returned and the final content
\* of `stack`
RECURSIVE CollectLoop(_, _, _, _)
CollectLoop(h, stack, matieres, seed) ==
    IF stack = <<>> THEN [matieres |-> matieres, stack |-> stack]
    ELSE LET n == PopNext(stack).n
             rest == PopNext(stack).rest
         IN  IF is_matiere(h[n])
             THEN CollectLoop(h, rest,
                      KeepMatiere(matieres, node_title(h[n]),
                                  SortedSet(SubLoop(h, <<n>>, <<>>), seed)),
                      seed)
             ELSE CollectLoop(h, rest \o ensure_list(h[n].children).items,
                              matieres, seed)

\* collect_matieres_and_courses, lines 71-101: the value returned and the
\* heap it leaves (stack is the list ensure_list returned, line 80)
collect_matieres_and_courses(h, fac, seed) ==
    LET r == CollectLoop(h, ensure_list(h[fac].children).items, <<>>, seed)
    IN  [matieres |-> r.matieres, heap |-> StoreList(h, fac, r.stack)]

(***************************************************************************)
(* Input trees                                                             *)
(***************************************************************************)
MaxNodes == 4

S_Cours1 == <<"C", "o", "u", "r", "s", "1">>
S_cours1 == <<"c", "o", "u", "r", "s", "1">>
S_Algo == <<"A", "l", "g", "o">>
S_Bio == <<"B", "i", "o">>
S_Dossier == <<"D", "o", "s", "s", "i", "e", "r">>
S_FacA == <<"F", "a", "c", "A">>

Sample(tp, folder, title) ==
    [type |-> tp, isFolder |-> folder, title |-> Some(title), data |-> None,
     id |-> None]

NodeSamples ==
    {Sample("cours", FALSE, S_Cours1), Sample("cours", FALSE, S_cours1),
     Sample("ue", FALSE, S_Algo), Sample("ue", TRUE, S_Dossier),
     Sample("category", TRUE, S_Bio)}

\* the shapes of n nodes: parent[i] is the node whose children hold i, 0 for
\* an element of the top-level array; ids are numbered level by level
Shapes(n) ==
    {p \in [1..n -> 0..n] :
        /\ \A i \in 1..n : p[i] < i
        /\ \A i \in 1..n : \A j \in 1..n : i < j => p[i] <= p[j]}

RECURSIVE IdsFrom(_, _, _)
IdsFrom(p, x, i) ==
    IF i > Len(p) THEN <<>>
    ELSE (IF p[i] = x THEN <<i>> ELSE <<>>) \o IdsFrom(p, x, i + 1)

\* the ids whose parent is x, in document order
ChildIds(p, x) == IdsFrom(p, x, 1)

\* the JSON text writes children either always as arrays ("lists"), or
\* leaves the key out when empty, writes a lone child without brackets and
\* several children as an array ("bare": every case of ensure_list)
ChildrenValue(items, style) ==
    IF style = "lists" THEN [kind |-> "list", items |-> items]
    ELSE IF items = <<>> THEN [kind |-> "none", items |-> <<>>]
    ELSE IF Len(items) = 1 THEN [kind |-> "dict", items |-> items]
    ELSE [kind |-> "list", items |-> items]

MakeDoc(p, smp, style) ==
    [i \in 1..Len(p) |->
        [type |-> smp[i].type, isFolder |-> smp[i].isFolder,
         title |-> smp[i].title, data |-> smp[i].data, id |-> smp[i].id,
         children |-> ChildrenValue(ChildIds(p, i), style)]]

(***************************************************************************)
(* collect_matieres_and_courses on one faculty                             *)
(***************************************************************************)
MaxSub == 5

FacultySample == Sample("faculte", TRUE, S_FacA)

\* the nodes below the faculty: a course, two kinds of subject, a folder
ExtractSamples ==
    {Sample("cours", FALSE, S_Cours1), Sample("ue", FALSE, S_Algo),
     Sample("ue", TRUE, S_Dossier), Sample("category", TRUE, S_Bio)}

\* doc is a document holding one faculty with n nodes below it
OneFaculty(n, samples, styles) ==
    \E p \in {q \in Shapes(n + 1) : \A i \in 2..(n + 1) : q[i] >= 1} :
    \E sub \in [2..(n + 1) -> samples] :
    \E style \in styles :
        doc = MakeDoc(p, [i \in 1..(n + 1) |->
                             IF i = 1 THEN FacultySample ELSE sub[i]], style)

\* the variables the extraction does not touch
NoPipeline ==
    /\ facs_with_courses = <<>>
    /\ skipped = 0
    /\ story = <<>>
    /\ sections = <<>>
    /\ collected = <<>>
    /\ node = [title |-> None, data |-> None, id |-> None]
    /\ titleOut = None
    /\ files = <<>>
    /\ loadIdx = 1
    /\ warnings = <<>>

InitExtract ==
    /\ pc = "extract"
    /\ OneFaculty(MaxSub, ExtractSamples, {"bare"})
    /\ heap = doc
    /\ hashseed = FALSE
    /\ trees = <<1>>
    /\ runs = <<>>
    /\ NoPipeline

\* one call of collect_matieres_and_courses(trees[0])
Collect ==
    /\ pc = "extract"
    /\ LET r == collect_matieres_and_courses(heap, trees[1], hashseed) IN
         /\ runs' = Append(runs, r.matieres)
         /\ heap' = r.heap
    /\ pc' = "once"
    /\ UNCHANGED <<trees, titleVars, loadVars, doc, hashseed,
                   facs_with_courses, skipped, story, sections, collected>>

NextExtract == Collect

SpecExtract == InitExtract /\ [][NextExtract]_vars

(***************************************************************************)
(* collect_matieres_and_courses called twice in a row on the same faculty  *)
(***************************************************************************)
InitRepeat ==
    /\ pc = "extract"
    /\ OneFaculty(MaxNodes, NodeSamples, {"lists", "bare"})
    /\ heap = doc
    /\ hashseed \in BOOLEAN
    /\ trees = <<1>>
    /\ runs = <<>>
    /\ NoPipeline

\* the second call, on the objects the first call left
CollectAgain ==
    /\ pc = "once"
    /\ LET r == collect_matieres_and_courses(heap, trees[1], hashseed) IN
         /\ runs' = Append(runs, r.matieres)
         /\ heap' = r.heap
    /\ pc' = "twice"
    /\ UNCHANGED <<trees, titleVars, loadVars, doc, hashseed,
                   facs_with_courses, skipped, story, sections, collected>>

NextRepeat == Collect \/ CollectAgain

SpecRepeat == InitRepeat /\ [][NextRepeat]_vars

\* C1: extraction is idempotent and read-only: the second call returns what
\* the first returned, and after a call every node, its children sequence
\* included, is as it was loaded.
C1_ExtractReadOnly ==
    /\ (Len(runs) >= 1 => heap = doc)
    /\ (Len(runs) = 2 => runs[2] = runs[1])

(***************************************************************************)
(* build_pdf, lines 133-247, and the script around it, lines 251-280       *)
(***************************************************************************)
HeaderBand(mm) == [k |-> "HeaderBand", mm |-> mm, style |-> "", text |-> <<>>]
Spacer(mm) == [k |-> "Spacer", mm |-> mm, style |-> "", text |-> <<>>]
Paragraph(text, style) == [k |-> "Paragraph", mm |-> 0, style |-> style, text |-> text]
PageBreak == [k |-> "PageBreak", mm |-> 0, style |-> "", text |-> <<>>]

S_CoverTitle == <<"h", "e", "r", "m", "i", "o", "n", "e">>
S_Generated == <<"G", "e", "n", "e", "r", "e">>
S_Autres == <<"A", "u", "t", "r", "e", "s">>

\* f"* {ct}", lines 234 and 239 (the bullet character stands as "*")
Bullet(ct) == <<"*", " ">> \o ct

\* lines 189-198
Cover(show_cover) ==
    IF show_cover
    THEN <<HeaderBand(28), Spacer(22), Paragraph(S_CoverTitle, "CoverTitle"),
           Spacer(8), Paragraph(S_Generated, "CoverMeta"), PageBreak>>
    ELSE <<>>

\* lines 201-204 and line 254: the faculties with a course, in order
RECURSIVE FilterFacs(_, _)
FilterFacs(h, facs) ==
    IF facs = <<>> THEN <<>>
    ELSE (IF has_any_course(h, Head(facs)) THEN <<Head(facs)>> ELSE <<>>)
             \o FilterFacs(h, Tail(facs))

\* the loop of lines 224-229: the titles found
RECURSIVE OrphanLoop(_, _, _)
OrphanLoop(h, stack, found) ==
    IF stack = <<>> THEN found
    ELSE LET n == Last(stack) IN
         IF h[n].type = "cours"
         THEN OrphanLoop(h, Front(stack), Append(found, node_title(h[n])))
         ELSE OrphanLoop(h, Front(stack) \o ensure_list(h[n].children).items,
                         found)

RECURSIVE ItemBlocks(_)
ItemBlocks(cours) ==
    IF cours = <<>> THEN <<>>
    ELSE <<Paragraph(Bullet(Head(cours)), "ListItem")>> \o ItemBlocks(Tail(cours))

\* lines 236-240
RECURSIVE MatiereBlocks(_)
MatiereBlocks(matieres) ==
    IF matieres = <<>> THEN <<>>
    ELSE <<Paragraph(Head(matieres).label, "SectionTitle")>>
             \o ItemBlocks(Head(matieres).cours)
             \o <<Spacer(3)>>
             \o MatiereBlocks(Tail(matieres))

\* lines 218-234: the subjects written when matieres is empty; the loop
\* runs the list of line 223 down to empty
Fallback(h, fac, seed) ==
    LET orphan_courses ==
            SortedSet(OrphanLoop(h, ensure_list(h[fac].children).items, <<>>),
                      seed)
    IN  [subjects |-> IF orphan_courses # <<>>
                      THEN <<[label |-> S_Autres, cours |-> orphan_courses]>>
                      ELSE <<>>,
         heap |-> StoreList(h, fac, <<>>)]

\* lines 231-234
FallbackBlocks(subjects) ==
    IF subjects = <<>> THEN <<>>
    ELSE <<Paragraph(subjects[1].label, "SectionTitle")>>
             \o ItemBlocks(subjects[1].cours)

\* (mutant of NeedsBreak: a page break after every faculty)
NeedsBreakAlways(idx, total) == idx < total

\* line 242, idx counted from 0 as enumerate does
NeedsBreak(idx, total) == idx < total - 1

\* the body of the loop of lines 207-243 for facs[idx + 1]
FacBlock(h, facs, idx, seed) ==
    LET fac == facs[idx + 1]
        r == collect_matieres_and_courses(h, fac, seed)
        fb == Fallback(r.heap, fac, seed)
        head == <<HeaderBand(16), Spacer(10),
                  Paragraph(node_title(h[fac]), "FacTitle")>>
        tail == IF NeedsBreak(idx, Len(facs)) THEN <<PageBreak>> ELSE <<>>
    IN  IF r.matieres = <<>>
        THEN [heap |-> fb.heap,
              blocks |-> head \o FallbackBlocks(fb.subjects) \o tail,
              subjects |-> fb.subjects]
        ELSE [heap |-> r.heap,
              blocks |-> head \o MatiereBlocks(r.matieres) \o tail,
              subjects |-> r.matieres]

\* the loop of lines 207-243 from index idx on
RECURSIVE FacLoop(_, _, _, _, _, _, _)
FacLoop(h, facs, idx, st, secs, coll, seed) ==
    IF idx >= Len(facs)
    THEN [heap |-> h, story |-> st, sections |-> secs, collected |-> coll]
    ELSE LET b == FacBlock(h, facs, idx, seed) IN
         FacLoop(b.heap, facs, idx + 1, st \o b.blocks,
                 Append(secs, [fac |-> facs[idx + 1], subjects |-> b.subjects]),
                 Append(coll, facs[idx + 1]), seed)

\* build_pdf up to doc.build(story)
build_pdf(h, facs, show_cover, seed) ==
    FacLoop(h, FilterFacs(h, facs), 0, Cover(show_cover), <<>>, <<>>, seed)

\* the faculties of the uploaded documents
PdfSamples ==
    {Sample("cours", FALSE, S_Cours1), Sample("cours", FALSE, S_cours1),
     Sample("ue", FALSE, S_Algo), Sample("ue", TRUE, S_Dossier)}

InitPdf ==
    /\ pc = "main"
    /\ \E n \in 0..MaxNodes :
       \E p \in Shapes(n) :
       \E smp \in [1..n -> PdfSamples] :
       \E style \in {"lists", "bare"} :
          /\ doc = MakeDoc(p, smp, style)
          /\ trees = ChildIds(p, 0)
    /\ heap = doc
    /\ hashseed \in BOOLEAN
    /\ runs = <<>>
    /\ NoPipeline

\* lines 252-263: the counts shown before the button is pressed
Main ==
    /\ pc = "main"
    /\ facs_with_courses' = FilterFacs(heap, trees)
    /\ skipped' = Len(trees) - Len(FilterFacs(heap, trees))
    /\ pc' = "ready"
    /\ UNCHANGED <<trees, titleVars, loadVars, doc, heap, hashseed, runs,
                   story, sections, collected>>

\* lines 265-274: the button is pressed
BuildPdf ==
    /\ pc = "ready"
    /\ \E show_cover \in BOOLEAN :
         LET r == build_pdf(heap, trees, show_cover, hashseed) IN
         /\ story' = r.story
         /\ sections' = r.sections
         /\ collected' = r.collected
         /\ heap' = r.heap
    /\ pc' = "done"
    /\ UNCHANGED <<trees, titleVars, loadVars, doc, hashseed, runs,
                   facs_with_courses, skipped>>

NextPdf == Main \/ BuildPdf

SpecPdf == InitPdf /\ [][NextPdf]_vars

(***************************************************************************)
(* The tree as a reader of the JSON sees it                                *)
(***************************************************************************)
ItemsOf(d, x) == d[x].children.items

\* par[n]: the node whose children hold n, 0 for a root
ParentMap(d) ==
    [n \in DOMAIN d |->
        IF \E x \in DOMAIN d : n \in Range(ItemsOf(d, x))
        THEN CHOOSE x \in DOMAIN d : n \in Range(ItemsOf(d, x))
        ELSE 0]

RECURSIVE Depth(_, _)
Depth(par, n) == IF par[n] = 0 THEN 0 ELSE 1 + Depth(par, par[n])

\* a is n or lies above n
RECURSIVE IsAbove(_, _, _)
IsAbove(par, a, n) ==
    IF n = 0 THEN FALSE
    ELSE IF a = n THEN TRUE
    ELSE IsAbove(par, a, par[n])

SubtreeOf(d, a) ==
    LET par == ParentMap(d) IN {n \in DOMAIN d : IsAbove(par, a, n)}

\* the positions, among its siblings, of n's ancestors and of n, from the
\* root down
RECURSIVE PathOf(_, _, _)
PathOf(d, par, n) ==
    IF par[n] = 0 THEN <<>>
    ELSE LET q == ItemsOf(d, par[n]) IN
         Append(PathOf(d, par, par[n]), CHOOSE i \in 1..Len(q) : q[i] = n)

RECURSIVE PathLess(_, _)
PathLess(a, b) ==
    IF b = <<>> THEN FALSE
    ELSE IF a = <<>> THEN TRUE
    ELSE IF Head(a) # Head(b) THEN Head(a) < Head(b)
    ELSE PathLess(Tail(a), Tail(b))

\* breadth-first order: smaller depth first, document order within a depth
BfsBefore(d, par, a, b) ==
    \/ Depth(par, a) < Depth(par, b)
    \/ /\ Depth(par, a) = Depth(par, b)
       /\ PathLess(PathOf(d, par, a), PathOf(d, par, b))

IsSubject(d, n) ==
    (d[n].type = "ue" /\ d[n].isFolder = FALSE) \/ d[n].type = "category"

\* the Subject nodes below fac with no Subject node between them and fac,
\* that have a course somewhere beneath them
EmittedSubjects(d, fac) ==
    LET par == ParentMap(d)
        sub == {n \in DOMAIN d : IsAbove(par, fac, n)}
    IN  {n \in sub \ {fac} :
            /\ IsSubject(d, n)
            /\ \A a \in sub \ {fac, n} : IsAbove(par, a, n) => ~IsSubject(d, a)
            /\ \E m \in sub : IsAbove(par, n, m) /\ d[m].type = "cours"}

RECURSIVE InBfsOrder(_, _, _)
InBfsOrder(d, par, S) ==
    IF S = {} THEN <<>>
    ELSE LET n == CHOOSE a \in S : \A b \in S \ {a} : BfsBefore(d, par, a, b)
         IN  <<n>> \o InBfsOrder(d, par, S \ {n})

Labels(matieres) == [i \in 1..Len(matieres) |-> matieres[i].label]

\* C9: the list returned is, label for label, the Subject nodes reached
\* from the faculty's children through non-Subject nodes only, in
\* breadth-first order, those without any course left out; a Subject below
\* a Subject is not emitted.  (The faculty is read as it is when called.)
C9_SubjectsBreadthFirst ==
    [][runs' # runs =>
         LET want == InBfsOrder(heap, ParentMap(heap),
                                   EmittedSubjects(heap, trees[1])) IN
         /\ Labels(Last(runs')) =
                [i \in 1..Len(want) |-> node_title(heap[want[i]])]
         /\ \A i \in 1..Len(Last(runs')) : Last(runs')[i].cours # <<>>]_vars

\* C9 witness: a subject at depth 2 written before a subject at depth 1 in
\* the document comes after it in the list returned
C9_Witness ==
    /\ Len(runs) >= 1
    /\ Labels(runs[1]) = <<S_Bio, S_Algo>>
    /\ \E a \in DOMAIN doc : \E b \in DOMAIN doc :
          /\ doc[a].title = Some(S_Algo) /\ doc[b].title = Some(S_Bio)
          /\ Depth(ParentMap(doc), a) = 2 /\ Depth(ParentMap(doc), b) = 1
          /\ PathLess(PathOf(doc, ParentMap(doc), a),
                      PathOf(doc, ParentMap(doc), b))

\* some node of f's subtree, f included, has type "cours"
HasCoursIn(d, f) == \E n \in SubtreeOf(d, f) : d[n].type = "cours"

RECURSIVE Retained(_, _)
Retained(d, facs) ==
    IF facs = <<>> THEN <<>>
    ELSE (IF HasCoursIn(d, Head(facs)) THEN <<Head(facs)>> ELSE <<>>)
             \o Retained(d, Tail(facs))

SectionFacs == [i \in 1..Len(sections) |-> sections[i].fac]

\* C7: has_any_course holds exactly of the faculties with a "cours" node
\* at any depth; the filter keeps exactly these, in order; skipped counts
\* the others; a faculty without course is never handed to
\* collect_matieres_and_courses.
C7_FilterExact ==
    /\ pc \in {"ready", "done"} =>
          /\ facs_with_courses = Retained(doc, trees)
          /\ skipped =
                Cardinality({i \in 1..Len(trees) : ~HasCoursIn(doc, trees[i])})
    /\ pc = "done" =>
          /\ SectionFacs = Retained(doc, trees)
          /\ \A i \in 1..Len(collected) : HasCoursIn(doc, collected[i])

\* C7 witness: a faculty without course is skipped, and a faculty is kept
\* for a course that lies two levels below it
C7_Witness ==
    /\ pc = "done"
    /\ skipped >= 1
    /\ \E i \in 1..Len(collected) :
          \A n \in SubtreeOf(doc, collected[i]) :
              doc[n].type = "cours" => Depth(ParentMap(doc), n) >= 2

\* the positions of the story where a faculty block starts
FacStarts == {i \in 1..Len(story) : story[i] = HeaderBand(16)}

\* C8: a page break lies between any two consecutive faculty blocks, and
\* none follows the last faculty block.
C8_PageBreaks ==
    pc = "done" =>
        /\ Cardinality(FacStarts) = Len(collected)
        /\ \A i \in FacStarts : \A j \in FacStarts :
              i < j => \E k \in (i + 1)..(j - 1) : story[k] = PageBreak
        /\ \A i \in FacStarts :
              (\A j \in FacStarts : j <= i) =>
                  \A k \in i..Len(story) : story[k] # PageBreak

\* C8 witness: a cover and three faculty blocks
C8_Witness ==
    /\ pc = "done"
    /\ Len(story) >= 1 /\ story[1] = HeaderBand(28)
    /\ Cardinality(FacStarts) = 3
    /\ Cardinality({k \in 1..Len(story) : story[k] = PageBreak}) = 3

AllTitles(subjects) ==
    UNION {Range(subjects[j].cours) : j \in 1..Len(subjects)}

CoursTitlesIn(d, f) ==
    {node_title(d[n]) : n \in {m \in SubtreeOf(d, f) : d[m].type = "cours"}}

\* C2: a faculty with a course in its subtree and no subject collected gets
\* exactly one subject, "Autres", listing the title of every "cours" node
\* of the subtree.
C2_AutresFallback ==
    pc = "done" =>
        \A i \in 1..Len(trees) :
            (HasCoursIn(doc, trees[i]) /\ EmittedSubjects(doc, trees[i]) = {})
            => \E s \in 1..Len(sections) :
                  /\ sections[s].fac = trees[i]
                  /\ Len(sections[s].subjects) = 1
                  /\ sections[s].subjects[1].label = S_Autres
                  /\ CoursTitlesIn(doc, trees[i])
                        \subseteq Range(sections[s].subjects[1].cours)

\* C3: every course list written is sorted ascending by lowercased title
\* and holds no two titles with the same lowercased form.
C3_SortedNoCaseDuplicates ==
    pc = "done" =>
        \A s \in 1..Len(sections) :
        \A j \in 1..Len(sections[s].subjects) :
            LET c == sections[s].subjects[j].cours IN
            \A x \in 1..Len(c) : \A y \in 1..Len(c) :
                x < y => StrLess(Lower(c[x]), Lower(c[y]))

\* C10: no course is lost: in the section of every retained faculty, the
\* title of each "cours" node of the subtree appears, up to letter case,
\* in the course list of some subject.
C10_NoCourseLost ==
    pc = "done" =>
        \A i \in 1..Len(trees) :
            HasCoursIn(doc, trees[i]) =>
                \E s \in 1..Len(sections) :
                    /\ sections[s].fac = trees[i]
                    /\ \A t \in CoursTitlesIn(doc, trees[i]) :
                          \E u \in AllTitles(sections[s].subjects) :
                              Lower(u) = Lower(t)

====
